---- MODULE Spec2Model ----
(***************************************************************************)
(* Model of src/src/aeer/model/latent_auto_encoder.py: the                 *)
(* LatentFactorAutoEncoder graph (forward pass, partial loss, ranking      *)
(* metrics) and the epoch loop of main() (train pass, evaluation pass,     *)
(* averaged metrics).                                                      *)
(*                                                                         *)
(* Numbers.  Tensors hold floats in the program.  Here the parameters, the *)
(* inputs and the targets are integers and both activations are relu       *)
(* (--hidden_fn relu --output_fn relu), so every layer stays an integer;   *)
(* quotients (the mean squared error, the metric sums and averages) are    *)
(* exact fractions <<n, d>> in lowest terms, with <<0, 0>> for NaN and     *)
(* <<1, 0>> for +Inf, the two values float division by zero produces.      *)
(* The Adam update itself (line 129-131) is not computed: a step that runs *)
(* model.train replaces the parameters by any element of ParamSpace.       *)
(***************************************************************************)
EXTENDS Integers, Sequences, FiniteSets, TLC

\* ------------------------------------------------------------------ bounds
NEvents == 10
NHidden == 1
MaxEpochs == 2
MaxIds == 2

\* ------------------------------------------------ constants of the program
K5 == 5
K10 == 10

\* An optional cardinality is None or <<n>>.
None == <<>>
Some(n) == <<n>>
Events == 0 .. (NEvents - 1)
Hidden == 1 .. NHidden

\* ------------------------------------------------------- float arithmetic
NaN == <<0, 0>>
Inf == <<1, 0>>

Abs(a) == IF a < 0 THEN -a ELSE a
Min(a, b) == IF a < b THEN a ELSE b

RECURSIVE GCD(_, _)
GCD(a, b) == IF b = 0 THEN a ELSE GCD(b, a % b)

\* n / d as a float division yields it: 0/0 is NaN, n/0 (n > 0) is +Inf.
Div(n, d) ==
    IF d = 0 THEN (IF n = 0 THEN NaN ELSE Inf)
    ELSE LET g == GCD(Abs(n), d) IN <<n \div g, d \div g>>

Zero == <<0, 1>>

\* a + b on floats: NaN absorbs, then +Inf.
Add(a, b) ==
    IF a = NaN \/ b = NaN THEN NaN
    ELSE IF a = Inf \/ b = Inf THEN Inf
    ELSE Div(a[1] * b[2] + b[1] * a[2], a[2] * b[2])

\* a / c for a positive integer c.
DivBy(a, c) == IF a[2] = 0 THEN a ELSE Div(a[1], a[2] * c)

\* f itself, as a table of its values: each value is computed once and not
\* again at every application.
Table(f) == f @@ <<>>

RECURSIVE SumSeq(_)
SumSeq(s) == IF s = <<>> THEN 0 ELSE Head(s) + SumSeq(Tail(s))

RECURSIVE AddSeq(_)
AddSeq(s) == IF s = <<>> THEN Zero ELSE Add(Head(s), AddSeq(Tail(s)))

\* ------------------------------------------------------------ the network
\* ACTIVATION_FN['relu'], the activation both layers are configured with.
Relu(v) == IF v < 0 THEN 0 ELSE v

\* A lookup that keeps the row of the first id only, without the sum.
LatentFactorFirstRow(table, ids) ==
    [h \in Hidden |-> IF ids = <<>> THEN 0 ELSE table[ids[1]][h]]

\* tf.nn.embedding_lookup followed by tf.reduce_sum(axis=0) and tf.squeeze:
\* the rows of `table` named by `ids` are summed into one vector of n_hidden
\* entries (squeeze only drops the axis when n_hidden = 1; the broadcast add
\* below is the same either way).
LatentFactor(table, ids) ==
    [h \in Hidden |-> SumSeq([k \in 1 .. Len(ids) |-> table[ids[k]][h]])]

\* tf.nn.xw_plus_b(x, W, b) for one row of x.
XwPlusB(row, W, b) ==
    [h \in Hidden |-> SumSeq([i \in 1 .. NEvents |-> row[i - 1] * W[i - 1][h]]) + b[h]]

\* The vector added to every row of the preactivation for one factor: nothing
\* when the factor is disabled (its cardinality is None).
FactorTerm(n, table, ids) ==
    IF n = None THEN [h \in Hidden |-> 0] ELSE LatentFactor(table, ids)

\* The hidden preactivation of one row.
Preactivation(p, ng, nv, row, group_id, venue_id) ==
    LET base == XwPlusB(row, p.W, p.b)
        vf == FactorTerm(nv, p.venue_bias, venue_id)
        gf == FactorTerm(ng, p.group_bias, group_id)
    IN [h \in Hidden |-> base[h] + vf[h] + gf[h]]

\* fully_connected(hidden, n_outputs, activation_fn) for one row.
OutputLayer(p, hid) ==
    Table([j \in Events |->
              Relu(SumSeq([h \in Hidden |-> hid[h] * p.Wout[h][j]]) + p.bout[j])])

\* model.outputs: one row of n_outputs scores per row of x.
Forward(p, ng, nv, x, group_id, venue_id) ==
    Table([r \in 1 .. Len(x) |->
              LET pre == Table(Preactivation(p, ng, nv, x[r], group_id, venue_id))
              IN OutputLayer(p, Table([h \in Hidden |-> Relu(pre[h])]))])

\* ------------------------------------------------------- the partial loss
\* gather_indices = list(zip(range(len(y)), item)): zip stops at the shorter
\* of its two arguments.
GatherIndices(y, item) ==
    [i \in 1 .. Min(Len(y), Len(item)) |-> <<i - 1, item[i]>>]

\* Feeding the list to the placeholder of shape [None, 2]: an empty list is an
\* array of shape (0,), which the feed rejects.
FeedableIndices(gi) == Len(gi) > 0

InRange(outputs, ix) == ix[1] + 1 \in 1 .. Len(outputs) /\ ix[2] \in Events

\* A gather that uses the column of each index pair and always row 0.
GatherNdFirstRow(outputs, gi, device) ==
    [ok |-> TRUE, val |-> [k \in 1 .. Len(gi) |-> outputs[1][gi[k][2]]]]

\* tf.gather_nd(outputs, gather_indices).  An index outside outputs is an
\* error on a CPU kernel and reads as 0 on a GPU kernel.
GatherNd(outputs, gi, device) ==
    IF device = "cpu" /\ \E k \in 1 .. Len(gi) : ~InRange(outputs, gi[k])
    THEN [ok |-> FALSE, val |-> <<>>]
    ELSE [ok |-> TRUE,
          val |-> [k \in 1 .. Len(gi) |->
                      IF InRange(outputs, gi[k])
                      THEN outputs[gi[k][1] + 1][gi[k][2]] ELSE 0]]

\* tf.losses.mean_squared_error(targets, y): the squared difference
\* broadcasts a length-1 operand against the other one and fails on any other
\* length mismatch; the sum is divided by the number of elements (0 when
\* there is none).
Broadcastable(a, b) == a = b \/ a = 1 \/ b = 1

MeanSquaredError(targets, y) ==
    LET a == Len(targets)
        b == Len(y)
        n == IF a = 1 THEN b ELSE a
        t(k) == IF a = 1 THEN targets[1] ELSE targets[k]
        v(k) == IF b = 1 THEN y[1] ELSE y[k]
        sq == [k \in 1 .. n |-> (t(k) - v(k)) * (t(k) - v(k))]
    IN IF ~Broadcastable(a, b) THEN [ok |-> FALSE, val |-> Zero]
       ELSE IF n = 0 THEN [ok |-> TRUE, val |-> Zero]
       ELSE [ok |-> TRUE, val |-> Div(SumSeq(sq), n)]

\* model.loss for fed outputs, gather_indices and y.
Loss(outputs, gi, y, device) ==
    LET g == GatherNd(outputs, gi, device)
    IN IF ~FeedableIndices(gi) \/ ~g.ok THEN [ok |-> FALSE, val |-> Zero]
       ELSE MeanSquaredError(g.val, y)

\* ------------------------------------------------------ ranking metrics
\* tf.nn.in_top_k(outputs, actuals, k) for one row: the target is in the top
\* k when fewer than k classes score strictly higher, so classes tied with
\* the target never push it out.
InTopK(row, target, k) ==
    Cardinality({i \in Events : row[i] > row[target]}) < k

\* The index set tf.nn.top_k(row, k) returns: among equal scores the lower
\* index comes first.
TopK(row, k) ==
    {j \in Events :
        Cardinality({i \in Events : row[i] > row[j] \/ (row[i] = row[j] /\ i < j)}) < k}

\* tf.nn.top_k needs at least k columns.
TopKDefined(k) == NEvents >= k

\* The boolean vector model.precision_at_k yields, as a count of its TRUEs
\* (np.sum): the rows whose held-out index is in the top k.
Hits(outputs, actuals, k) ==
    Cardinality({r \in 1 .. Len(actuals) : InTopK(outputs[r], actuals[r], k)})

\* tf.metrics.recall_at_k keeps two local variables: it adds to tp the rows
\* whose label is one of top_k's indices and to fn the other rows.
BatchTp(outputs, actuals, k) ==
    Cardinality({r \in 1 .. Len(actuals) : actuals[r] \in TopK(outputs[r], k)})

BatchFn(outputs, actuals, k) == Len(actuals) - BatchTp(outputs, actuals, k)

\* The value tensor of recall_at_k is tp / (tp + fn), read from the two local
\* variables in the same run that adds the batch to them, with nothing
\* ordering the reads after or before the two assign_add ops.  Each of the
\* three reads (tp and fn in the sum, then tp in the quotient) sees its
\* variable before or after the update; the quotient's read comes after the
\* sum's.
RecallReads(tp, fn, dtp, dfn) ==
    {Div(qt, st + sf) :
        <<st, sf, qt>> \in {w \in {tp, tp + dtp} \X {fn, fn + dfn} \X {tp, tp + dtp} :
                               w[3] >= w[1]}}

\* ------------------------------------------------------------ parameters
\* The variables the graph creates: W, Bias, VenueBias and GroupBias (each
\* only when its factor is enabled) and the output layer's weights and
\* biases.  `o` shapes the output weights (all equal, rising or falling with
\* the event index), `e` is the sign of the embedding rows.
MkParams(ng, nv, o, e) ==
    [W |-> [i \in Events |-> [h \in Hidden |-> 1]],
     b |-> [h \in Hidden |-> 0],
     venue_bias |-> IF nv = None THEN <<>>
                    ELSE [v \in 0 .. (nv[1] - 1) |-> [h \in Hidden |-> e]],
     group_bias |-> IF ng = None THEN <<>>
                    ELSE [g \in 0 .. (ng[1] - 1) |-> [h \in Hidden |-> e * (g + 1)]],
     Wout |-> [h \in Hidden |->
                 [j \in Events |-> IF o = "asc" THEN j
                                   ELSE IF o = "desc" THEN NEvents - 1 - j ELSE 0]],
     bout |-> [j \in Events |-> 0]]

\* The values the initializers and the optimizer can leave in the variables.
ParamSpace(ng, nv) ==
    {MkParams(ng, nv, oe[1], oe[2]) : oe \in {<<"asc", 1>>, <<"desc", 1>>, <<"asc", -1>>}}

\* sess.run(fetches, feed): the variables change only when the train op is
\* among the fetches, and then to whatever the optimizer computes.
TrainFetches == {"loss", "train"}

\* The evaluation's fetch list with the train op added to it.
EvalFetchesWithTrain ==
    {"precision_at_5", "precision_at_10", "recall_at_5", "recall_at_10", "train"}

EvalFetches == {"precision_at_5", "precision_at_10", "recall_at_5", "recall_at_10"}

RunParams(fetches, p, q) == IF "train" \in fetches THEN q ELSE p

\* ------------------------------------------------------- the data source
\* ds.EventData: the loaded data set, one of five.
\*   "empty"    no user at all;
\*   "twins"    train users 1 and 2, who have the same history and the same
\*              held-out event, and test user 3, who never trained;
\*   "stranger" train user 1, and only test user 3, who never trained;
\*   "fan"      user 4, with six held-out events;
\*   "ragged"   user 5, whose samples break the shape contract.
DataSets == {"empty", "twins", "stranger", "fan", "ragged"}

get_users(d) ==
    CASE d = "empty" -> <<>>
      [] d = "twins" -> <<1, 2>>
      [] d = "stranger" -> <<1>>
      [] d = "fan" -> <<4>>
      [] d = "ragged" -> <<5>>

get_test_users(d) ==
    CASE d = "empty" -> <<>>
      [] d = "twins" -> <<1, 3, 2>>
      [] d = "stranger" -> <<3>>
      [] d = "fan" -> <<4>>
      [] d = "ragged" -> <<5>>

get_train_users(d) ==
    CASE d = "empty" -> {}
      [] d = "twins" -> {1, 2}
      [] d = "stranger" -> {1}
      [] d = "fan" -> {4}
      [] d = "ragged" -> {5}

\* event_data.n_groups and event_data.n_venues.
DataGroups == 2
DataVenues == 1

\* One row of x: 1 at the events of S.
XRow(S) == Table([e \in Events |-> IF e \in S THEN 1 ELSE 0])

\* get_user_test_event_index(user_id).
get_user_test_event_index(d, u) ==
    CASE u = 4 -> <<0, 1, 2, 3, 4, 5>>
      [] u = 5 -> <<NEvents - 1>>
      [] OTHER -> <<0>>

\* get_user_train_events_with_group(user_id, 0, 0): the user's full input.
EvalSample(d, u) ==
    [x |-> IF u = 5 THEN <<XRow({0}), XRow({0})>> ELSE <<XRow({0, 1})>>,
     group_id |-> <<0, 1>>,
     venue_id |-> <<0>>]

\* get_user_train_events_with_group(user_id, NEG_COUNT, CORRUPT_RATIO): the
\* corruption is random, so a call returns any of the user's samples (two
\* for user 4, one for users 1 and 2).  The samples of user 5 have
\* len(item) # len(y), fewer rows in x than in y, or nothing at all.
TrainSamples(d, u) ==
    IF u = 5
    THEN {[x |-> <<XRow({0})>>, y |-> yy, item |-> it,
           group_id |-> <<0>>, venue_id |-> <<0>>] :
             <<yy, it>> \in {<<<<1>>, <<0, 2>>>>, <<<<1, 0, 1>>, <<0>>>>,
                             <<<<1, 0, 1>>, <<0, 2>>>>, <<<<1, 0>>, <<0, 2>>>>,
                             <<<<>>, <<>>>>}}
    ELSE {[x |-> <<XRow({0}), XRow({0, 1})>>, y |-> <<1, 0>>, item |-> <<0, 2>>,
           group_id |-> g, venue_id |-> <<0>>] :
             g \in (IF u = 4 THEN {<<1>>, <<0, 1>>} ELSE {<<0, 1>>})}

\* --------------------------------------------------------------- main()
VARIABLES
    event_data,        \* the loaded data set
    n_epochs,          \* FLAGS.epochs
    n_groups,          \* event_data.n_groups, or None under --nogroup
    n_venues,          \* event_data.n_venues, or None under --novenue
    device,            \* where the session places the kernels
    params,            \* the model's variables
    locals,            \* the local variables of the two recall_at_k metrics
    pc,                \* "loop", "train", "evaluate", "done" or "failed"
    epoch,
    users,
    uidx,              \* position of `for user_id in users`
    epoch_loss,
    test_users,
    train_users,
    tidx,              \* position of `for user_id in test_users`
    sums,              \* precision_5, precision_10, recall_5, recall_10
    valid_test_users,
    avg,               \* avg_precision_5 .. avg_recall_10, as printed
    \* history
    phases,            \* the phases started so far
    reports,           \* number of epochs whose metrics were printed
    steps,             \* number of sess.run calls that ran model.train
    visited,           \* users asked for a training sample this epoch
    losses,            \* batch_loss of each step this epoch
    lastStep,          \* shapes of the last training step
    lastEval,          \* input and results of the last evaluation
    divided,           \* whether the last averaging divided
    fin,               \* input of the function under test
    fout               \* its result

mainVars ==
    <<event_data, n_epochs, n_groups, n_venues, device, params, locals, pc, epoch,
      users, uidx, epoch_loss, test_users, train_users, tidx, sums,
      valid_test_users, avg, phases, reports, steps, visited, losses, lastStep,
      lastEval, divided>>

vars == <<mainVars, fin, fout>>

ZeroSums ==
    [precision_5 |-> Zero, precision_10 |-> Zero, recall_5 |-> Zero, recall_10 |-> Zero]

NoStep == [ran |-> FALSE, len_y |-> 0, len_item |-> 0, rows |-> 0]
NoEval == [ran |-> FALSE]

Init ==
    /\ event_data \in DataSets
    /\ n_epochs \in 0 .. MaxEpochs
    /\ \E nogroup \in BOOLEAN :
           /\ n_groups = IF nogroup THEN None ELSE Some(DataGroups)
           /\ n_venues = IF nogroup THEN None ELSE Some(DataVenues)
    /\ device \in (IF event_data = "ragged" THEN {"cpu", "gpu"} ELSE {"gpu"})
    /\ params \in ParamSpace(n_groups, n_venues)
    /\ locals = [tp5 |-> 0, fn5 |-> 0, tp10 |-> 0, fn10 |-> 0]
    /\ pc = "loop"
    /\ epoch = 0
    /\ users = get_users(event_data)
    /\ uidx = 1
    /\ epoch_loss = Zero
    /\ test_users = <<>>
    /\ train_users = {}
    /\ tidx = 1
    /\ sums = ZeroSums
    /\ valid_test_users = 0
    /\ avg = ZeroSums
    /\ phases = <<>>
    /\ reports = 0
    /\ steps = 0
    /\ visited = <<>>
    /\ losses = <<>>
    /\ lastStep = NoStep
    /\ lastEval = NoEval
    /\ divided = FALSE
    /\ fin = <<>>
    /\ fout = <<>>

\* np.tile(x, (n, 1)): the rows of x, n times over.
Tile(x, n) == Table([r \in 1 .. Len(x) * n |-> x[((r - 1) % Len(x)) + 1]])

\* A resampling of the list: as many draws from it, repeats allowed.
ShuffleWithReplacement(list) ==
    {s \in [1 .. Len(list) -> {list[i] : i \in 1 .. Len(list)}] : TRUE}

\* shuffle(users): any ordering of the list.
Shuffle(list) ==
    {s \in [1 .. Len(list) -> {list[i] : i \in 1 .. Len(list)}] :
        \E f \in [1 .. Len(list) -> 1 .. Len(list)] :
            /\ \A i, j \in 1 .. Len(list) : f[i] = f[j] => i = j
            /\ \A i \in 1 .. Len(list) : s[i] = list[f[i]]}

\* A loop test that lets one epoch too many through.
HasEpochOffByOne(e, n) == e <= n

\* `for epoch in range(n_epochs)`: whether the loop has another epoch to run.
HasEpoch(e, n) == e < n

\* A membership test that lets every test user through.
EligibleAlways(u, tr) == TRUE

\* `if user_id in train_users`.
Eligible(u, tr) == u \in tr

\* epoch_loss += batch_loss
Accumulate(total, batch_loss) == Add(total, batch_loss)

\* An average that divides without looking at the count.
AverageUnguarded(sum, n) ==
    [val |-> IF n = 0 THEN NaN ELSE DivBy(sum, n), divided |-> TRUE]

\* avg = sum / valid_test_users under `if valid_test_users > 0`, else the 0
\* assigned before it.
Average(sum, n) ==
    IF n > 0 THEN [val |-> DivBy(sum, n), divided |-> TRUE]
    ELSE [val |-> Zero, divided |-> FALSE]

\* Lines 171-174: the loop takes the next epoch, zeroes the loss, shuffles.
BeginEpoch ==
    /\ pc = "loop"
    /\ HasEpoch(epoch, n_epochs)
    /\ epoch_loss' = Zero
    /\ users' \in Shuffle(users)
    /\ uidx' = 1
    /\ pc' = "train"
    /\ phases' = Append(phases, <<"Train", epoch>>)
    /\ visited' = <<>>
    /\ losses' = <<>>
    /\ UNCHANGED <<event_data, n_epochs, n_groups, n_venues, device, params, locals,
                   epoch, test_users, train_users, tidx, sums, valid_test_users, avg,
                   reports, steps, lastStep, lastEval, divided, fin, fout>>

\* Line 171, 247: range(n_epochs) is exhausted and main() returns.
Finish ==
    /\ pc = "loop"
    /\ ~HasEpoch(epoch, n_epochs)
    /\ pc' = "done"
    /\ UNCHANGED <<event_data, n_epochs, n_groups, n_venues, device, params, locals,
                   epoch, users, uidx, epoch_loss, test_users, train_users, tidx, sums,
                   valid_test_users, avg, phases, reports, steps, visited, losses,
                   lastStep, lastEval, divided, fin, fout>>

\* What the run of [model.loss, model.train] on sample s yields.
StepLoss(s) ==
    Loss(Forward(params, n_groups, n_venues, s.x, s.group_id, s.venue_id),
         GatherIndices(s.y, s.item), s.y, device)

StepShapes(s) ==
    [ran |-> TRUE, len_y |-> Len(s.y), len_item |-> Len(s.item),
     rows |-> Len(GatherIndices(s.y, s.item))]

\* Lines 176-192: one user's sample, one run of the loss and the train op.
TrainStep ==
    /\ pc = "train"
    /\ uidx <= Len(users)
    /\ \E s \in TrainSamples(event_data, users[uidx]) :
        \E batch \in {StepLoss(s)} :
            /\ batch.ok
            /\ \E q \in ParamSpace(n_groups, n_venues) :
                   params' = RunParams(TrainFetches, params, q)
            /\ epoch_loss' = Accumulate(epoch_loss, batch.val)
            /\ losses' = Append(losses, batch.val)
            /\ lastStep' = StepShapes(s)
    /\ steps' = steps + 1
    /\ visited' = Append(visited, users[uidx])
    /\ uidx' = uidx + 1
    /\ UNCHANGED <<event_data, n_epochs, n_groups, n_venues, device, locals, pc, epoch,
                   users, test_users, train_users, tidx, sums, valid_test_users, avg,
                   phases, reports, lastEval, divided, fin, fout>>

\* Lines 184-190 raising: the feed or a kernel rejects the sample and the
\* exception ends main().
TrainStepFails ==
    /\ pc = "train"
    /\ uidx <= Len(users)
    /\ \E s \in TrainSamples(event_data, users[uidx]) : ~StepLoss(s).ok
    /\ visited' = Append(visited, users[uidx])
    /\ pc' = "failed"
    /\ UNCHANGED <<event_data, n_epochs, n_groups, n_venues, device, params, locals,
                   epoch, users, uidx, epoch_loss, test_users, train_users, tidx, sums,
                   valid_test_users, avg, phases, reports, steps, losses, lastStep,
                   lastEval, divided, fin, fout>>

\* Lines 194-203: the user loop is over; the loss is printed, the test users
\* are fetched and the sums and the count start from 0.
BeginEvaluate ==
    /\ pc = "train"
    /\ uidx > Len(users)
    /\ test_users' = get_test_users(event_data)
    /\ sums' = ZeroSums
    /\ valid_test_users' = 0
    /\ tidx' = 1
    /\ pc' = "evaluate"
    /\ phases' = Append(phases, <<"Evaluate", epoch>>)
    /\ visited' = <<>>
    /\ losses' = <<>>
    /\ lastStep' = NoStep
    /\ UNCHANGED <<event_data, n_epochs, n_groups, n_venues, device, params, locals,
                   epoch, users, uidx, epoch_loss, train_users, avg, reports, steps,
                   lastEval, divided, fin, fout>>

\* The feed of one evaluation (lines 210-216, 223-226) for test user u.
EvalFeed(u) ==
    LET smp == EvalSample(event_data, u)
        tei == get_user_test_event_index(event_data, u)
    IN [x |-> Tile(smp.x, Len(tei)), actuals |-> tei,
        group_id |-> smp.group_id, venue_id |-> smp.venue_id]

EvalOutputs(f) == Forward(params, n_groups, n_venues, f.x, f.group_id, f.venue_id)

\* in_top_k wants one target per row of outputs, and top_k at least k
\* columns; otherwise the run raises.
EvalRuns(f) == Len(f.x) = Len(f.actuals) /\ TopKDefined(K5) /\ TopKDefined(K10)

\* precision + np.sum(precision_at_k) / k
AddPrecision(sum, hits, k) == Add(sum, Div(hits, k))

\* What one run of the four metric fetches can return for outputs `out`, with
\* the local variables it leaves behind.
MetricRuns(out, actuals, loc) ==
    LET U(dtp5, dfn5, dtp10, dfn10) ==
            {[precision_at_5 |-> Hits(out, actuals, K5),
              precision_at_10 |-> Hits(out, actuals, K10),
              recall_at_5 |-> r5,
              recall_at_10 |-> r10,
              locals |-> [tp5 |-> loc.tp5 + dtp5, fn5 |-> loc.fn5 + dfn5,
                          tp10 |-> loc.tp10 + dtp10, fn10 |-> loc.fn10 + dfn10]] :
                r5 \in RecallReads(loc.tp5, loc.fn5, dtp5, dfn5),
                r10 \in RecallReads(loc.tp10, loc.fn10, dtp10, dfn10)}
    IN U(BatchTp(out, actuals, K5), BatchFn(out, actuals, K5),
         BatchTp(out, actuals, K10), BatchFn(out, actuals, K10))

\* Lines 204-232 for a test user who is in the train-user set: the count
\* goes up, the four metrics run in one sess.run, the sums take them.
EvalUser ==
    /\ pc = "evaluate"
    /\ tidx <= Len(test_users)
    /\ train_users' = get_train_users(event_data)
    /\ Eligible(test_users[tidx], train_users')
    /\ \E f \in {EvalFeed(test_users[tidx])} :
        /\ EvalRuns(f)
        /\ \E m \in MetricRuns(EvalOutputs(f), f.actuals, locals) :
            /\ sums' = [precision_5 |-> AddPrecision(sums.precision_5, m.precision_at_5, K5),
                        precision_10 |-> AddPrecision(sums.precision_10, m.precision_at_10, K10),
                        recall_5 |-> Add(sums.recall_5, m.recall_at_5),
                        recall_10 |-> Add(sums.recall_10, m.recall_at_10)]
            /\ lastEval' = [ran |-> TRUE, feed |-> f, steps |-> steps,
                            precision_at_5 |-> m.precision_at_5,
                            precision_at_10 |-> m.precision_at_10,
                            recall_at_5 |-> m.recall_at_5,
                            recall_at_10 |-> m.recall_at_10]
            /\ locals' = m.locals
        /\ \E q \in ParamSpace(n_groups, n_venues) :
               params' = RunParams(EvalFetches, params, q)
    /\ valid_test_users' = valid_test_users + 1
    /\ tidx' = tidx + 1
    /\ UNCHANGED <<event_data, n_epochs, n_groups, n_venues, device, pc, epoch, users,
                   uidx, epoch_loss, test_users, avg, phases, reports, steps, visited,
                   losses, lastStep, divided, fin, fout>>

\* Lines 204-207 for a test user who is not in the train-user set.
EvalSkip ==
    /\ pc = "evaluate"
    /\ tidx <= Len(test_users)
    /\ train_users' = get_train_users(event_data)
    /\ ~Eligible(test_users[tidx], train_users')
    /\ tidx' = tidx + 1
    /\ UNCHANGED <<event_data, n_epochs, n_groups, n_venues, device, params, locals,
                   pc, epoch, users, uidx, epoch_loss, test_users, sums,
                   valid_test_users, avg, phases, reports, steps, visited, losses,
                   lastStep, lastEval, divided, fin, fout>>

\* Lines 219-227 raising: the exception ends main().
EvalFails ==
    /\ pc = "evaluate"
    /\ tidx <= Len(test_users)
    /\ train_users' = get_train_users(event_data)
    /\ Eligible(test_users[tidx], train_users')
    /\ ~EvalRuns(EvalFeed(test_users[tidx]))
    /\ valid_test_users' = valid_test_users + 1
    /\ pc' = "failed"
    /\ UNCHANGED <<event_data, n_epochs, n_groups, n_venues, device, params, locals,
                   epoch, users, uidx, epoch_loss, test_users, tidx, sums, avg, phases,
                   reports, steps, visited, losses, lastStep, lastEval, divided, fin,
                   fout>>

\* Lines 234-247: the four averages are computed and printed, and the loop
\* goes to its next epoch.
Report ==
    /\ pc = "evaluate"
    /\ tidx > Len(test_users)
    /\ avg' = [precision_5 |-> Average(sums.precision_5, valid_test_users).val,
               precision_10 |-> Average(sums.precision_10, valid_test_users).val,
               recall_5 |-> Average(sums.recall_5, valid_test_users).val,
               recall_10 |-> Average(sums.recall_10, valid_test_users).val]
    /\ divided' = Average(sums.precision_5, valid_test_users).divided
    /\ reports' = reports + 1
    /\ epoch' = epoch + 1
    /\ pc' = "loop"
    /\ UNCHANGED <<event_data, n_epochs, n_groups, n_venues, device, params, locals,
                   users, uidx, epoch_loss, test_users, train_users, tidx, sums,
                   valid_test_users, phases, steps, visited, losses, lastStep,
                   lastEval, fin, fout>>

Next ==
    \/ BeginEpoch
    \/ Finish
    \/ TrainStep
    \/ TrainStepFails
    \/ BeginEvaluate
    \/ EvalUser
    \/ EvalSkip
    \/ EvalFails
    \/ Report

Spec == Init /\ [][Next]_vars

\* ------------------------------------------- the forward pass on its own
\* The main loop at rest, for the two specifications of single functions.
MainIdle ==
    /\ event_data = "empty"
    /\ n_epochs = 0
    /\ n_groups = None
    /\ n_venues = None
    /\ device = "gpu"
    /\ params = MkParams(None, None, "asc", 1)
    /\ locals = [tp5 |-> 0, fn5 |-> 0, tp10 |-> 0, fn10 |-> 0]
    /\ pc = "done"
    /\ epoch = 0
    /\ users = <<>>
    /\ uidx = 1
    /\ epoch_loss = Zero
    /\ test_users = <<>>
    /\ train_users = {}
    /\ tidx = 1
    /\ sums = ZeroSums
    /\ valid_test_users = 0
    /\ avg = ZeroSums
    /\ phases = <<>>
    /\ reports = 0
    /\ steps = 0
    /\ visited = <<>>
    /\ losses = <<>>
    /\ lastStep = NoStep
    /\ lastEval = NoEval
    /\ divided = FALSE

\* The id lists a call can feed for a factor of cardinality n: up to MaxIds
\* ids below n (a single id 0, ignored, when the factor is disabled).
IdLists(n) ==
    IF n = None THEN {<<0>>}
    ELSE UNION {[1 .. k -> 0 .. (n[1] - 1)] : k \in 0 .. MaxIds}

Cardinalities == {None, Some(1), Some(DataGroups)}

InitForward ==
    /\ MainIdle
    /\ \E ng \in Cardinalities, nv \in Cardinalities :
        \E p \in ParamSpace(ng, nv), row \in {XRow({}), XRow({0, 1})},
           g \in IdLists(ng), v \in IdLists(nv) :
            fin = [n_groups |-> ng, n_venues |-> nv, params |-> p, row |-> row,
                   group_id |-> g, venue_id |-> v]
    /\ fout = <<>>

\* One call of the graph up to the hidden preactivation, next to the base
\* linear path x W + b alone.
ApplyForward ==
    /\ fout = <<>>
    /\ fout' = [pre |-> Table(Preactivation(fin.params, fin.n_groups, fin.n_venues,
                                           fin.row, fin.group_id, fin.venue_id)),
                base |-> Table(XwPlusB(fin.row, fin.params.W, fin.params.b))]
    /\ UNCHANGED <<mainVars, fin>>

SpecForward == InitForward /\ [][ApplyForward]_vars

\* ---------------------------------------------------- the loss on its own
OutputRows == {XRow({}), XRow({0}), XRow({2}), Table([e \in Events |-> e])}

InitLoss ==
    /\ MainIdle
    /\ \E a1 \in OutputRows, a2 \in OutputRows, b1 \in OutputRows, b2 \in OutputRows,
          yi \in {<<<<1>>, <<0>>>>, <<<<1, 0>>, <<0, 2>>>>, <<<<1>>, <<0, 2>>>>,
                  <<<<1, 0, 1>>, <<2>>>>, <<<<1, 0, 1>>, <<0, 2>>>>,
                  <<<<1, 0, 1>>, <<2, 0, 2>>>>, <<<<>>, <<>>>>},
          dev \in {"cpu", "gpu"} :
            fin = [a |-> <<a1, a2>>, b |-> <<b1, b2>>, y |-> yi[1],
                   gather_indices |-> GatherIndices(yi[1], yi[2]), device |-> dev]
    /\ fout = <<>>

\* model.loss evaluated for each of the two output matrices.
ApplyLoss ==
    /\ fout = <<>>
    /\ fout' = [a |-> Loss(fin.a, fin.gather_indices, fin.y, fin.device),
                b |-> Loss(fin.b, fin.gather_indices, fin.y, fin.device)]
    /\ UNCHANGED <<mainVars, fin>>

SpecLoss == InitLoss /\ [][ApplyLoss]_vars

\* ================================================================ claims
\* C1: a run alternates Train and Evaluate, one of each per epoch and in that
\* order, for the epochs 0 .. n_epochs-1; an epoch's Train starts only once
\* the metrics of the epoch before it are reported; there is no other phase;
\* and main() returns exactly when the last epoch's metrics are reported
\* (for n_epochs = 0, without a training step or an evaluation).
C1_Alternation ==
    /\ pc \in {"loop", "train", "evaluate", "done", "failed"}
    /\ \A i \in 1 .. Len(phases) :
           phases[i] = <<IF i % 2 = 1 THEN "Train" ELSE "Evaluate", (i - 1) \div 2>>
    /\ pc = "loop" => Len(phases) = 2 * epoch /\ reports = epoch
    /\ pc = "train" => Len(phases) = 2 * epoch + 1 /\ reports = epoch /\ epoch < n_epochs
    /\ pc = "evaluate" => Len(phases) = 2 * epoch + 2 /\ reports = epoch /\ epoch < n_epochs
    /\ pc = "done" => Len(phases) = 2 * n_epochs /\ reports = n_epochs /\ epoch = n_epochs
    /\ n_epochs = 0 => steps = 0 /\ lastEval = NoEval /\ phases = <<>>

\* The last of several epochs has just been evaluated and main() returned.
C1_Witness ==
    /\ pc = "done"
    /\ n_epochs = MaxEpochs
    /\ Len(phases) = 2 * MaxEpochs
    /\ steps > 0
    /\ lastEval.ran

\* C2: the variables change only in a step that runs model.train; no step of
\* the Evaluate phase changes them.
C2_OnlyTrainStepWrites ==
    [][/\ params' # params => pc = "train" /\ steps' = steps + 1
       /\ pc = "evaluate" => params' = params]_vars

\* A user was evaluated after training steps had run.
C2_Witness ==
    /\ pc = "evaluate"
    /\ lastEval.ran
    /\ lastEval.steps = steps
    /\ steps > 0
    /\ valid_test_users > 0

\* C3: two evaluations with the same feed and no training step between them
\* return the same four metric values.
C3_EvaluationIsPure ==
    [][(/\ lastEval.ran
        /\ valid_test_users' = valid_test_users + 1
        /\ pc' = "evaluate"
        /\ lastEval'.feed = lastEval.feed
        /\ lastEval'.steps = lastEval.steps)
       => /\ lastEval'.precision_at_5 = lastEval.precision_at_5
          /\ lastEval'.precision_at_10 = lastEval.precision_at_10
          /\ lastEval'.recall_at_5 = lastEval.recall_at_5
          /\ lastEval'.recall_at_10 = lastEval.recall_at_10]_vars

\* q is s / n for an integer n > 0 (NaN and +Inf divide to themselves).
IsQuotient(q, sum, n) ==
    IF sum[2] = 0 THEN q = sum
    ELSE q[2] > 0 /\ q[1] * sum[2] * n = sum[1] * q[2]

Reported == reports > 0 /\ pc \in {"loop", "done", "train"}

\* C4: the averages reported for an epoch are all exactly 0, with no division
\* done, when no test user was in the train-user set; otherwise each is its
\* sum divided by the count.
C4_Averages ==
    Reported =>
        /\ valid_test_users = 0 => avg = ZeroSums /\ ~divided
        /\ valid_test_users > 0 =>
            /\ divided
            /\ IsQuotient(avg.precision_5, sums.precision_5, valid_test_users)
            /\ IsQuotient(avg.precision_10, sums.precision_10, valid_test_users)
            /\ IsQuotient(avg.recall_5, sums.recall_5, valid_test_users)
            /\ IsQuotient(avg.recall_10, sums.recall_10, valid_test_users)

\* An epoch was reported whose test users were all absent from the train set.
C4_Witness ==
    /\ Reported
    /\ pc = "loop"
    /\ Len(test_users) > 0
    /\ valid_test_users = 0
    /\ avg = ZeroSums

\* C5: the precision@k added for a user (hits / k) is at most 1, and so is
\* the running sum per evaluated user.
C5_PrecisionInUnitRange ==
    /\ lastEval.ran =>
        /\ lastEval.precision_at_5 \in 0 .. K5
        /\ lastEval.precision_at_10 \in 0 .. K10
    /\ sums.precision_5[1] <= sums.precision_5[2] * valid_test_users
    /\ sums.precision_10[1] <= sums.precision_10[2] * valid_test_users

\* C6: a training step that computed a loss and applied an update had
\* len(item) = len(y) and a gather list of exactly len(y) rows.
C6_MismatchFails ==
    lastStep.ran =>
        /\ lastStep.len_item = lastStep.len_y
        /\ lastStep.rows = lastStep.len_y

Count(seq, u) == Cardinality({i \in 1 .. Len(seq) : seq[i] = u})

EligibleSoFar ==
    Cardinality({i \in 1 .. Min(tidx - 1, Len(test_users)) :
                    test_users[i] \in get_train_users(event_data)})

\* C9: during an epoch's evaluation the count is the number of test users
\* seen so far that are train users; the sums are 0 while the count is 0,
\* and while it is 1 they hold the one evaluated user's metrics and nothing
\* from the users skipped before or after.
C9_EligibleCount ==
    pc = "evaluate" =>
        /\ valid_test_users = EligibleSoFar
        /\ valid_test_users = 0 => sums = ZeroSums
        /\ valid_test_users = 1 =>
            /\ lastEval.ran
            /\ sums.precision_5 = Div(lastEval.precision_at_5, K5)
            /\ sums.precision_10 = Div(lastEval.precision_at_10, K10)
            /\ sums.recall_5 = Add(Zero, lastEval.recall_at_5)
            /\ sums.recall_10 = Add(Zero, lastEval.recall_at_10)

\* The evaluation of an epoch is over, with a test user skipped between two
\* evaluated ones.
C9_Witness ==
    /\ pc = "evaluate"
    /\ tidx > Len(test_users)
    /\ \E i \in 1 .. Len(test_users) : test_users[i] \notin get_train_users(event_data)
    /\ valid_test_users = 2
    /\ epoch > 0

\* C10: in the Train phase the users asked for a sample are the shuffled
\* list so far, one step each, the loss is the sum of the steps' losses, and
\* when the pass ends every user of the list was visited exactly once.
C10_OnePassPerEpoch ==
    pc = "train" =>
        /\ Len(users) = Len(get_users(event_data))
        /\ visited = SubSeq(users, 1, uidx - 1)
        /\ Len(losses) = Len(visited)
        /\ epoch_loss = AddSeq(losses)
        /\ steps = epoch * Len(users) + Len(visited)
        /\ uidx = 1 => epoch_loss = Zero
        /\ uidx > Len(users) =>
               \A i \in 1 .. Len(users) :
                   Count(visited, get_users(event_data)[i]) = 1

\* A pass over two users is over, in the order opposite to the list's.
C10_Witness ==
    /\ pc = "train"
    /\ uidx > Len(users)
    /\ Len(visited) = 2
    /\ visited # get_users(event_data)
    /\ epoch > 0
    /\ epoch_loss # Zero

\* What the call added to the base path x W + b, per hidden unit.
Added == [h \in Hidden |-> fout.pre[h] - fout.base[h]]

\* What the call added for the venue factor and for the group factor: the
\* whole of it less the other factor's term.
AddedForVenues ==
    [h \in Hidden |->
        Added[h] - FactorTerm(fin.n_groups, fin.params.group_bias, fin.group_id)[h]]

AddedForGroups ==
    [h \in Hidden |->
        Added[h] - FactorTerm(fin.n_venues, fin.params.venue_bias, fin.venue_id)[h]]

\* C7 as stated: a factor of cardinality 1 adds its single embedding row,
\* however many ids the call supplies.
C7_AddsTheSingleRow ==
    fout # <<>> =>
        \A h \in Hidden :
            /\ fin.n_venues = Some(1) => AddedForVenues[h] = fin.params.venue_bias[0][h]
            /\ fin.n_groups = Some(1) => AddedForGroups[h] = fin.params.group_bias[0][h]

\* C7, amended: a factor of cardinality 1 adds its single embedding row once
\* per id supplied, so the row itself exactly when one id is supplied.
C7_AddsTheRowPerId ==
    fout # <<>> =>
        \A h \in Hidden :
            /\ fin.n_venues = Some(1) =>
                   AddedForVenues[h] = Len(fin.venue_id) * fin.params.venue_bias[0][h]
            /\ fin.n_groups = Some(1) =>
                   AddedForGroups[h] = Len(fin.group_id) * fin.params.group_bias[0][h]

\* Forward ran with a venue factor of cardinality 1 and two ids, next to a
\* larger group factor, and added twice the venue row.
C7_Witness ==
    /\ fout # <<>>
    /\ fin.n_venues = Some(1)
    /\ fin.n_groups = Some(DataGroups)
    /\ Len(fin.venue_id) = 2
    /\ \A h \in Hidden :
           /\ AddedForVenues[h] = 2 * fin.params.venue_bias[0][h]
           /\ AddedForVenues[h] # 0

\* The two output matrices agree at every index pair of gather_indices.
AgreeOnGathered ==
    \A k \in 1 .. Len(fin.gather_indices) :
        LET ix == fin.gather_indices[k]
        IN InRange(fin.a, ix) => fin.a[ix[1] + 1][ix[2]] = fin.b[ix[1] + 1][ix[2]]

\* C8: output matrices that agree on the gathered entries have equal losses
\* (or fail alike), for any y.
C8_LossReadsGatheredOnly ==
    (fout # <<>> /\ AgreeOnGathered) => fout.a = fout.b

\* Two different matrices that agree where gathered got the same nonzero
\* loss.
C8_Witness ==
    /\ fout # <<>>
    /\ AgreeOnGathered
    /\ fin.a # fin.b
    /\ fout.a.ok
    /\ fout.a = fout.b
    /\ fout.a.val # Zero
    /\ Len(fin.gather_indices) = 2

====
